---- MODULE Spec2Model ----
(***************************************************************************)
(* A model of signfy-meet's UserMediaProvider (src/context/UserMedia.tsx)  *)
(* and GalleryLayout (src/unnamed/part_000).                               *)
(*                                                                         *)
(* UserMediaProvider is modelled as a state machine over the React state   *)
(* of the provider, the browser's media tracks and the promises that are   *)
(* in flight.  Every asynchronous operation is split where the code awaits *)
(* a browser promise: one action for the synchronous part of the call, one *)
(* for each way the awaited promise can settle.  Steps of different calls  *)
(* interleave freely, as they do on the event loop.                        *)
(***************************************************************************)
EXTENDS Integers, Sequences, FiniteSets, TLC

\* ------------------------------------------------------------------ bounds

\* Asynchronous calls issued over the life of one provider instance.
MaxCalls == 2

\* Asynchronous calls issued where only the calls that change the active
\* microphone or camera are made.
MaxChangeCalls == 3

\* Frequency bins of the analyser (its frequencyBinCount).
MaxBins == 2

\* Children handed to one GalleryLayout.
MaxChildren == 3

\* ------------------------------------------------------------- vocabulary

Undefined == "undefined"

\* A track reference that refers to no track (an unset useState value).
None == 0

\* The input devices the browser can hand out.
Devices == {"d1", "d2"}

\* An optional deviceId argument.
OptDevice == Devices \cup {Undefined}

GenericError ==
  "Error accessing user media devices. Please ensure that you have a working microphone and camera."

defaultCameraOption == [video |-> "default"]

defaultMicrophoneOption == [audio |-> "default"]

noCameraOption == [video |-> "off"]

noMicrophoneOption == [audio |-> "off"]

\* What enumerateDevices can resolve with: lists of (kind, deviceId).
EnumerateResults ==
  { << [kind |-> "audioinput", deviceId |-> "d1"],
       [kind |-> "videoinput", deviceId |-> "d1"],
       [kind |-> "audiooutput", deviceId |-> "d1"] >>,
    << [kind |-> "videoinput", deviceId |-> "d2"],
       [kind |-> "audioinput", deviceId |-> "d1"],
       [kind |-> "audioinput", deviceId |-> "d2"] >> }

VARIABLES
  supported,                       \* navigator.mediaDevices.getUserMedia exists
  tracks,                          \* every MediaStreamTrack the browser handed out
  activeCamera,                    \* useState<LocalTrack>: index into tracks, or None
  activeMicrophone,                \* useState<LocalTrack>: index into tracks, or None
  localAudioAnalyser,              \* useState<AnalyserNode>: the track it meters, or None
  userMediaError,                  \* useState<string>
  microphoneDevices,               \* useState<InputDeviceInfo[]>
  cameraDevices,                   \* useState<InputDeviceInfo[]>
  cameraDeviceId,                  \* UserContext preference
  microphoneDeviceId,              \* UserContext preference
  defaultMicrophoneCameraOptions,  \* the module-level options object
  pending,                         \* calls awaiting a browser promise
  nCalls,                          \* asynchronous calls issued so far
  callLimit,                       \* asynchronous calls this run may issue
  last,                            \* the step taken last and how it ended
  level,                           \* what getActiveMicrophoneLevel returned last
  gallery                          \* GalleryLayout: props and rendered children

mediaVars ==
  << supported, tracks, activeCamera, activeMicrophone, localAudioAnalyser,
     userMediaError, microphoneDevices, cameraDevices, cameraDeviceId,
     microphoneDeviceId, defaultMicrophoneCameraOptions, pending, nCalls,
     callLimit, last, level >>

vars == << mediaVars, gallery >>

\* ------------------------------------------------------- browser behaviour

\* MediaStreamTrack.stop(): the track ends; stopping an ended track is a no-op.
StopTrack(tr, i) == [tr EXCEPT ![i].readyState = "ended"]

\* A microphone track that comes up with the mute state of the active one.
NewTrackInheritingMute(kind, deviceId) ==
  [kind |-> kind, deviceId |-> deviceId, readyState |-> "live",
   enabled |-> IF kind = "audio" /\ activeMicrophone # None
                 THEN tracks[activeMicrophone].enabled
               ELSE TRUE]

\* A fresh track as getUserMedia hands it out: live and enabled.
NewTrack(kind, deviceId) ==
  [kind |-> kind, deviceId |-> deviceId, readyState |-> "live", enabled |-> TRUE]

\* The device the system designates as its default input.
DefaultDevice == "d1"

\* The device a constraint selects: the system default, else the one named.
Selected(c) == IF c = "default" THEN DefaultDevice ELSE c

\* activeCameraId: the deviceId of the active camera, if there is one.
activeCameraId ==
  IF activeCamera = None THEN Undefined ELSE tracks[activeCamera].deviceId

\* activeMicrophoneId: the deviceId of the active microphone, if there is one.
activeMicrophoneId ==
  IF activeMicrophone = None THEN Undefined ELSE tracks[activeMicrophone].deviceId

LiveTracks(kind) ==
  { i \in DOMAIN tracks : tracks[i].kind = kind /\ tracks[i].readyState = "live" }

\* What getActiveMicrophoneLevel returns: null, or the average (kept as the
\* fraction sum / count the code divides out) and the peak of the bins.
NullLevel == [kind |-> "null", avgDb |-> [num |-> 0, den |-> 1], peakDb |-> 0]

\* Before getActiveMicrophoneLevel has been called.
NoLevel == [kind |-> "none", avgDb |-> [num |-> 0, den |-> 1], peakDb |-> 0]

\* Values of a Uint8Array element: its least and its greatest.
ByteSamples == {0, 255}

\* What getByteFrequencyData can fill the array with.
FrequencyData == UNION { [1..n -> ByteSamples] : n \in 1..MaxBins }

\* ------------------------------------------------------------------- init

MediaInitWithin(limit) ==
  /\ callLimit = limit
  /\ supported \in BOOLEAN
  /\ tracks = << >>
  /\ activeCamera = None
  /\ activeMicrophone = None
  /\ localAudioAnalyser = None
  /\ userMediaError = Undefined
  /\ microphoneDevices = << >>
  /\ cameraDevices = << >>
  /\ cameraDeviceId = Undefined
  /\ microphoneDeviceId = Undefined
  /\ defaultMicrophoneCameraOptions = [video |-> "default", audio |-> "default"]
  /\ pending = {}
  /\ nCalls = 0
  /\ last = [op |-> "mount", ev |-> "none", acq |-> "none", again |-> FALSE]
  /\ level = NoLevel

MediaInit == MediaInitWithin(MaxCalls)

\* Before the first render nothing has been laid out.
GalleryInit ==
  gallery = [rendered |-> FALSE, given |-> FALSE, children |-> << >>,
             width |-> 0, height |-> 0, gap |-> 0, output |-> << >>]

Init == MediaInit /\ GalleryInit

\* ------------------------------------------------------------ bookkeeping

\* A call that now awaits a browser promise.  audio/video are the constraints
\* getUserMedia was called with, deviceId the call's argument, prev the track
\* that was active when the call was made and prevState that track's
\* readyState at the moment getUserMedia was called.
Call(op, pc, audio, video, deviceId, prev, prevState) ==
  [id |-> nCalls + 1, op |-> op, pc |-> pc, audio |-> audio, video |-> video,
   deviceId |-> deviceId, prev |-> prev, prevState |-> prevState]

\* The readyState of a track reference in a track table ("none" for None).
StateOf(tr, i) == IF i = None THEN "none" ELSE tr[i].readyState

\* The step just taken: ev is how the operation stands towards its caller
\* (pending, resolved, rejected, threw, or returned for a synchronous one),
\* acq what became of the browser call the step settled, again whether the
\* step before it was of the same operation.
Step(op, ev, acq) == [op |-> op, ev |-> ev, acq |-> acq, again |-> last.op = op]

\* The tracks of the stream getUserMedia resolves with, audio first.
Stream(audio, video) ==
  (IF audio # "off" THEN << NewTrack("audio", Selected(audio)) >> ELSE << >>) \o
  (IF video # "off" THEN << NewTrack("video", Selected(video)) >> ELSE << >>)

\* Index in tracks (once the stream is appended at offset base) of the last
\* track of the given kind of the stream, or old when it has none.
LastOfKind(stream, kind, base, old) ==
  LET S == { i \in DOMAIN stream : stream[i].kind = kind }
  IN  IF S = {} THEN old ELSE base + (CHOOSE i \in S : \A j \in S : j <= i)

\* stream.getTracks().forEach(track => track.stop())
StopAll(stream) == [i \in DOMAIN stream |-> [stream[i] EXCEPT !.readyState = "ended"]]

\* devices.filter(device => device.kind === kind)
FilterKind(devices, kind) == SelectSeq(devices, LAMBDA d : d.kind = kind)

\* An analyser that is not rebuilt for the new track.
AnalyserKept(track) == localAudioAnalyser

\* setupLocalMicrophoneAnalyser(track): the analyser is fed by that track.
setupLocalMicrophoneAnalyser(track) == track

\* ------------------------------------------- requestPermissionAndPopulateDevices

PopulateName == "requestPermissionAndPopulateDevices"

\* The call itself.  navigator.mediaDevices is dereferenced without a guard:
\* where it is missing the call throws before any promise exists.
requestPermissionAndPopulateDevices ==
  \/ /\ ~supported
     /\ last' = Step(PopulateName, "threw", "unsupported")
     /\ UNCHANGED << gallery, level, callLimit, supported, tracks, activeCamera, activeMicrophone,
                     localAudioAnalyser, userMediaError, microphoneDevices,
                     cameraDevices, cameraDeviceId, microphoneDeviceId,
                     defaultMicrophoneCameraOptions, pending, nCalls >>
  \/ /\ supported
     /\ nCalls < callLimit
     /\ pending' = pending \cup
          { Call(PopulateName, "getUserMedia",
                 defaultMicrophoneCameraOptions.audio,
                 defaultMicrophoneCameraOptions.video, Undefined, None, "none") }
     /\ nCalls' = nCalls + 1
     /\ last' = Step(PopulateName, "returned", "none")
     /\ UNCHANGED << gallery, level, callLimit, supported, tracks, activeCamera, activeMicrophone,
                     localAudioAnalyser, userMediaError, microphoneDevices,
                     cameraDevices, cameraDeviceId, microphoneDeviceId,
                     defaultMicrophoneCameraOptions >>

\* What the first .then does with the dummy stream before enumerating.
PopulateDummy(stream) == StopAll(stream)

\* The dummy acquisition resolved: stop every track, then enumerate.
PopulateStreamResolved(p) ==
  /\ p \in pending /\ p.op = PopulateName /\ p.pc = "getUserMedia"
  /\ supported
  /\ tracks' = tracks \o PopulateDummy(Stream(p.audio, p.video))
  /\ pending' = (pending \ {p}) \cup {[p EXCEPT !.pc = "enumerateDevices"]}
  /\ last' = Step(PopulateName, "step", "ok")
  /\ UNCHANGED << gallery, level, callLimit, supported, activeCamera, activeMicrophone, localAudioAnalyser,
                  userMediaError, microphoneDevices, cameraDevices,
                  cameraDeviceId, microphoneDeviceId,
                  defaultMicrophoneCameraOptions, nCalls >>

\* The .catch at the end of the chain: either promise rejected.
PopulateRejected(p) ==
  /\ p \in pending /\ p.op = PopulateName
  /\ userMediaError' = GenericError
  /\ pending' = pending \ {p}
  /\ last' = Step(PopulateName, "caught", "failed")
  /\ UNCHANGED << gallery, level, callLimit, supported, tracks, activeCamera, activeMicrophone,
                  localAudioAnalyser, microphoneDevices, cameraDevices,
                  cameraDeviceId, microphoneDeviceId,
                  defaultMicrophoneCameraOptions, nCalls >>

\* enumerateDevices resolved: split the list by kind.
PopulateDevicesResolved(p, devices) ==
  /\ p \in pending /\ p.op = PopulateName /\ p.pc = "enumerateDevices"
  /\ microphoneDevices' = FilterKind(devices, "audioinput")
  /\ cameraDevices' = FilterKind(devices, "videoinput")
  /\ pending' = pending \ {p}
  /\ last' = Step(PopulateName, "done", "ok")
  /\ UNCHANGED << gallery, level, callLimit, supported, tracks, activeCamera, activeMicrophone,
                  localAudioAnalyser, userMediaError, cameraDeviceId,
                  microphoneDeviceId, defaultMicrophoneCameraOptions, nCalls >>

\* ---------------------------------------------- requestPermissionAndStartDevices

StartName == "requestPermissionAndStartDevices"

\* let constraints = defaultMicrophoneCameraOptions, then the two assignments:
\* constraints is the shared object itself, so this is also its new value.
StartConstraints(options, micId, camId) ==
  [audio |-> IF micId # Undefined THEN micId ELSE options.audio,
   video |-> IF camId # Undefined THEN camId ELSE options.video]

\* The value of the shared options object once the call has run.
StartSharedOptions(options, micId, camId) == StartConstraints(options, micId, camId)

requestPermissionAndStartDevices(micId, camId) ==
  \/ /\ ~supported
     /\ userMediaError' = GenericError
     /\ last' = Step(StartName, "resolved", "unsupported")
     /\ UNCHANGED << gallery, level, callLimit, supported, tracks, activeCamera, activeMicrophone,
                     localAudioAnalyser, microphoneDevices, cameraDevices,
                     cameraDeviceId, microphoneDeviceId,
                     defaultMicrophoneCameraOptions, pending, nCalls >>
  \/ /\ supported
     /\ nCalls < callLimit
     /\ LET c == StartConstraints(defaultMicrophoneCameraOptions, micId, camId)
        IN  pending' = pending \cup
              { Call(StartName, "getUserMedia", c.audio, c.video, Undefined, None, "none") }
     /\ defaultMicrophoneCameraOptions' =
          StartSharedOptions(defaultMicrophoneCameraOptions, micId, camId)
     /\ nCalls' = nCalls + 1
     /\ last' = Step(StartName, "pending", "none")
     /\ UNCHANGED << gallery, level, callLimit, supported, tracks, activeCamera, activeMicrophone,
                     localAudioAnalyser, userMediaError, microphoneDevices,
                     cameraDevices, cameraDeviceId, microphoneDeviceId >>

\* The awaited getUserMedia resolved: the forEach over the stream's tracks.
StartResolved(p) ==
  /\ p \in pending /\ p.op = StartName
  /\ supported
  /\ LET stream == Stream(p.audio, p.video)
         base == Len(tracks)
         mic == LastOfKind(stream, "audio", base, activeMicrophone)
     IN  /\ tracks' = tracks \o stream
         /\ activeMicrophone' = mic
         /\ localAudioAnalyser' =
              IF mic = activeMicrophone THEN localAudioAnalyser
              ELSE setupLocalMicrophoneAnalyser(mic)
         /\ activeCamera' = LastOfKind(stream, "video", base, activeCamera)
  /\ pending' = pending \ {p}
  /\ last' = Step(StartName, "resolved", "ok")
  /\ UNCHANGED << gallery, level, callLimit, supported, userMediaError, microphoneDevices, cameraDevices,
                  cameraDeviceId, microphoneDeviceId,
                  defaultMicrophoneCameraOptions, nCalls >>

\* The awaited getUserMedia rejected: the catch block.
StartRejected(p) ==
  /\ p \in pending /\ p.op = StartName
  /\ userMediaError' = GenericError
  /\ pending' = pending \ {p}
  /\ last' = Step(StartName, "resolved", "failed")
  /\ UNCHANGED << gallery, level, callLimit, supported, tracks, activeCamera, activeMicrophone,
                  localAudioAnalyser, microphoneDevices, cameraDevices,
                  cameraDeviceId, microphoneDeviceId,
                  defaultMicrophoneCameraOptions, nCalls >>

\* ----------------------------------------------------------------- camera

GetCameraName == "getCamera"

ChangeCameraName == "changeActiveCamera"

\* The constraints getCamera builds: no microphone, the named camera.
CameraConstraints(deviceId) == [audio |-> noMicrophoneOption.audio, video |-> deviceId]

\* getCamera up to its await.
getCamera(deviceId) ==
  /\ nCalls < callLimit
  /\ LET c == CameraConstraints(deviceId)
     IN  pending' = pending \cup
           { Call(GetCameraName, "getUserMedia", c.audio, c.video, deviceId,
                  activeCamera, StateOf(tracks, activeCamera)) }
  /\ nCalls' = nCalls + 1
  /\ last' = Step(GetCameraName, "pending", "none")
  /\ UNCHANGED << gallery, level, callLimit, supported, tracks, activeCamera, activeMicrophone,
                  localAudioAnalyser, userMediaError, microphoneDevices,
                  cameraDevices, cameraDeviceId, microphoneDeviceId,
                  defaultMicrophoneCameraOptions >>

\* The tracks once stopActiveCamera has run with the given active camera.
StopActiveCameraTracks(tr, camera) ==
  IF camera # None THEN StopTrack(tr, camera) ELSE tr

\* A stopActiveCamera that stops the track and keeps the state.
StopActiveCameraStateKept(camera) == camera

\* The activeCamera state once stopActiveCamera has run.
StopActiveCameraState(camera) == IF camera # None THEN None ELSE camera

stopActiveCamera ==
  /\ tracks' = StopActiveCameraTracks(tracks, activeCamera)
  /\ activeCamera' = StopActiveCameraState(activeCamera)
  /\ last' = Step("stopActiveCamera", "returned", "none")
  /\ UNCHANGED << gallery, level, callLimit, supported, activeMicrophone, localAudioAnalyser,
                  userMediaError, microphoneDevices, cameraDevices,
                  cameraDeviceId, microphoneDeviceId,
                  defaultMicrophoneCameraOptions, pending, nCalls >>

\* changeActiveCamera up to the await inside getCamera: stopActiveCamera(),
\* then getCamera(deviceId).
changeActiveCamera(deviceId) ==
  /\ nCalls < callLimit
  /\ tracks' = StopActiveCameraTracks(tracks, activeCamera)
  /\ activeCamera' = StopActiveCameraState(activeCamera)
  /\ LET c == CameraConstraints(deviceId)
     IN  pending' = pending \cup
           { Call(ChangeCameraName, "getUserMedia", c.audio, c.video, deviceId,
                  activeCamera, StateOf(tracks', activeCamera)) }
  /\ nCalls' = nCalls + 1
  /\ last' = Step(ChangeCameraName, "pending", "none")
  /\ UNCHANGED << gallery, level, callLimit, supported, activeMicrophone, localAudioAnalyser,
                  userMediaError, microphoneDevices, cameraDevices,
                  cameraDeviceId, microphoneDeviceId,
                  defaultMicrophoneCameraOptions >>

\* getCamera after its await resolved (for getCamera and changeActiveCamera).
CameraResolved(p) ==
  /\ p \in pending /\ p.op \in {GetCameraName, ChangeCameraName}
  /\ supported
  /\ LET stream == Stream(p.audio, p.video)
     IN  /\ tracks' = tracks \o stream
         /\ activeCamera' = Len(tracks) + 1
  /\ cameraDeviceId' = p.deviceId
  /\ pending' = pending \ {p}
  /\ last' = Step(p.op, "resolved", "ok")
  /\ UNCHANGED << gallery, level, callLimit, supported, activeMicrophone, localAudioAnalyser,
                  userMediaError, microphoneDevices, cameraDevices,
                  microphoneDeviceId, defaultMicrophoneCameraOptions, nCalls >>

\* A rejection that resets the error.
UncaughtErrorCleared(error) == Undefined

\* What a rejected acquisition leaves in userMediaError when getCamera or
\* getMicrophone awaited it: there is no try/catch around the await.
UncaughtError(error) == error

\* How the promise returned to the caller settles in that case.
UncaughtOutcome == "rejected"

\* The awaited getUserMedia rejected (for getCamera and changeActiveCamera).
CameraRejected(p) ==
  /\ p \in pending /\ p.op \in {GetCameraName, ChangeCameraName}
  /\ userMediaError' = UncaughtError(userMediaError)
  /\ pending' = pending \ {p}
  /\ last' = Step(p.op, UncaughtOutcome, "failed")
  /\ UNCHANGED << gallery, level, callLimit, supported, tracks, activeCamera, activeMicrophone,
                  localAudioAnalyser, microphoneDevices, cameraDevices,
                  cameraDeviceId, microphoneDeviceId,
                  defaultMicrophoneCameraOptions, nCalls >>

\* ------------------------------------------------------------- microphone

GetMicrophoneName == "getMicrophone"

ChangeMicrophoneName == "changeActiveMicrophone"

\* The constraints getMicrophone builds: no camera, the named microphone.
MicrophoneConstraints(deviceId) == [audio |-> deviceId, video |-> noCameraOption.video]

\* getMicrophone up to its await.
getMicrophone(deviceId) ==
  /\ nCalls < callLimit
  /\ LET c == MicrophoneConstraints(deviceId)
     IN  pending' = pending \cup
           { Call(GetMicrophoneName, "getUserMedia", c.audio, c.video, deviceId,
                  activeMicrophone, StateOf(tracks, activeMicrophone)) }
  /\ nCalls' = nCalls + 1
  /\ last' = Step(GetMicrophoneName, "pending", "none")
  /\ UNCHANGED << gallery, level, callLimit, supported, tracks, activeCamera, activeMicrophone,
                  localAudioAnalyser, userMediaError, microphoneDevices,
                  cameraDevices, cameraDeviceId, microphoneDeviceId,
                  defaultMicrophoneCameraOptions >>

\* The tracks once changeActiveMicrophone has stopped the active microphone.
StopActiveMicrophoneTracks(tr, microphone) ==
  IF microphone # None THEN StopTrack(tr, microphone) ELSE tr

\* A changeActiveMicrophone that clears the state as stopActiveCamera does.
ChangeMicrophoneCleared(microphone) == None

\* The activeMicrophone state changeActiveMicrophone leaves before it awaits:
\* it stops the track and sets no state.
ChangeMicrophoneActive(microphone) == microphone

\* changeActiveMicrophone up to the await inside getMicrophone.
changeActiveMicrophone(deviceId) ==
  /\ nCalls < callLimit
  /\ tracks' = StopActiveMicrophoneTracks(tracks, activeMicrophone)
  /\ activeMicrophone' = ChangeMicrophoneActive(activeMicrophone)
  /\ LET c == MicrophoneConstraints(deviceId)
     IN  pending' = pending \cup
           { Call(ChangeMicrophoneName, "getUserMedia", c.audio, c.video, deviceId,
                  activeMicrophone, StateOf(tracks', activeMicrophone)) }
  /\ nCalls' = nCalls + 1
  /\ last' = Step(ChangeMicrophoneName, "pending", "none")
  /\ UNCHANGED << gallery, level, callLimit, supported, activeCamera, localAudioAnalyser,
                  userMediaError, microphoneDevices, cameraDevices,
                  cameraDeviceId, microphoneDeviceId,
                  defaultMicrophoneCameraOptions >>

\* getMicrophone after its await resolved (for getMicrophone and
\* changeActiveMicrophone).
MicrophoneResolved(p) ==
  /\ p \in pending /\ p.op \in {GetMicrophoneName, ChangeMicrophoneName}
  /\ supported
  /\ LET stream == Stream(p.audio, p.video)
     IN  /\ tracks' = tracks \o stream
         /\ activeMicrophone' = Len(tracks) + 1
         /\ localAudioAnalyser' = setupLocalMicrophoneAnalyser(Len(tracks) + 1)
  /\ microphoneDeviceId' = p.deviceId
  /\ pending' = pending \ {p}
  /\ last' = Step(p.op, "resolved", "ok")
  /\ UNCHANGED << gallery, level, callLimit, supported, activeCamera, userMediaError, microphoneDevices,
                  cameraDevices, cameraDeviceId,
                  defaultMicrophoneCameraOptions, nCalls >>

\* The awaited getUserMedia rejected (for getMicrophone and
\* changeActiveMicrophone).
MicrophoneRejected(p) ==
  /\ p \in pending /\ p.op \in {GetMicrophoneName, ChangeMicrophoneName}
  /\ userMediaError' = UncaughtError(userMediaError)
  /\ pending' = pending \ {p}
  /\ last' = Step(p.op, UncaughtOutcome, "failed")
  /\ UNCHANGED << gallery, level, callLimit, supported, tracks, activeCamera, activeMicrophone,
                  localAudioAnalyser, microphoneDevices, cameraDevices,
                  cameraDeviceId, microphoneDeviceId,
                  defaultMicrophoneCameraOptions, nCalls >>

\* A mute that flips the flag instead of clearing it.
MuteTrackToggling(tr, microphone) ==
  IF microphone # None
    THEN [tr EXCEPT ![microphone].enabled = ~tr[microphone].enabled]
  ELSE tr

\* activeMicrophone.track.enabled = false, when there is an active microphone.
MuteTrack(tr, microphone) ==
  IF microphone # None THEN [tr EXCEPT ![microphone].enabled = FALSE] ELSE tr

\* activeMicrophone.track.enabled = true, when there is an active microphone.
UnMuteTrack(tr, microphone) ==
  IF microphone # None THEN [tr EXCEPT ![microphone].enabled = TRUE] ELSE tr

muteActiveMicrophone ==
  /\ tracks' = MuteTrack(tracks, activeMicrophone)
  /\ last' = Step("muteActiveMicrophone", "returned", "none")
  /\ UNCHANGED << gallery, level, callLimit, supported, activeCamera, activeMicrophone, localAudioAnalyser,
                  userMediaError, microphoneDevices, cameraDevices,
                  cameraDeviceId, microphoneDeviceId,
                  defaultMicrophoneCameraOptions, pending, nCalls >>

unMuteActiveMicrophone ==
  /\ tracks' = UnMuteTrack(tracks, activeMicrophone)
  /\ last' = Step("unMuteActiveMicrophone", "returned", "none")
  /\ UNCHANGED << gallery, level, callLimit, supported, activeCamera, activeMicrophone, localAudioAnalyser,
                  userMediaError, microphoneDevices, cameraDevices,
                  cameraDeviceId, microphoneDeviceId,
                  defaultMicrophoneCameraOptions, pending, nCalls >>

\* values.reduce((a, b) => a + b, 0)
RECURSIVE SumOf(_)
SumOf(values) ==
  IF values = << >> THEN 0 ELSE Head(values) + SumOf(Tail(values))

\* The least of the values, where the code takes the greatest.
MinOf(values) ==
  CHOOSE v \in { values[i] : i \in DOMAIN values } :
    \A i \in DOMAIN values : v <= values[i]

\* Math.max(...values)
MaxOf(values) ==
  CHOOSE v \in { values[i] : i \in DOMAIN values } :
    \A i \in DOMAIN values : values[i] <= v

\* The value getActiveMicrophoneLevel returns when the analyser fills the
\* array with dataArray.
MicrophoneLevel(dataArray) ==
  IF activeMicrophone = None \/ localAudioAnalyser = None
    THEN NullLevel
  ELSE [kind |-> "level",
        avgDb |-> [num |-> SumOf(dataArray), den |-> Len(dataArray)],
        peakDb |-> MaxOf(dataArray)]

getActiveMicrophoneLevel(dataArray) ==
  /\ level' = MicrophoneLevel(dataArray)
  /\ last' = Step("getActiveMicrophoneLevel", "returned", "none")
  /\ UNCHANGED << gallery, callLimit, supported, tracks, activeCamera,
                  activeMicrophone, localAudioAnalyser, userMediaError,
                  microphoneDevices, cameraDevices, cameraDeviceId,
                  microphoneDeviceId, defaultMicrophoneCameraOptions, pending,
                  nCalls >>

Next ==
  \/ \E deviceId \in Devices : changeActiveCamera(deviceId)
  \/ \E deviceId \in Devices : getCamera(deviceId)
  \/ stopActiveCamera
  \/ \E p \in pending : CameraResolved(p)
  \/ \E p \in pending : CameraRejected(p)
  \/ \E deviceId \in Devices : getMicrophone(deviceId)
  \/ \E deviceId \in Devices : changeActiveMicrophone(deviceId)
  \/ \E p \in pending : MicrophoneResolved(p)
  \/ \E p \in pending : MicrophoneRejected(p)
  \/ muteActiveMicrophone
  \/ unMuteActiveMicrophone

  \/ requestPermissionAndPopulateDevices
  \/ \E p \in pending : PopulateStreamResolved(p)
  \/ \E p \in pending : PopulateRejected(p)
  \/ \E p \in pending, devices \in EnumerateResults : PopulateDevicesResolved(p, devices)
  \/ \E micId \in OptDevice, camId \in OptDevice :
       requestPermissionAndStartDevices(micId, camId)
  \/ \E p \in pending : StartResolved(p)
  \/ \E p \in pending : StartRejected(p)

Spec == Init /\ [][Next]_vars

\* Only the operations that change the active microphone or camera, with room
\* for one acquisition more to be in flight.
InitChange == MediaInitWithin(MaxChangeCalls) /\ GalleryInit

NextChange ==
  \/ \E deviceId \in Devices : getMicrophone(deviceId)
  \/ \E deviceId \in Devices : changeActiveMicrophone(deviceId)
  \/ \E p \in pending : MicrophoneResolved(p)
  \/ \E p \in pending : MicrophoneRejected(p)
  \/ \E deviceId \in Devices : changeActiveCamera(deviceId)
  \/ \E p \in pending : CameraResolved(p)
  \/ \E p \in pending : CameraRejected(p)

SpecChange == InitChange /\ [][NextChange]_vars

\* The operations that set the active microphone, and the level reading.
NextLevel ==
  \/ \E deviceId \in Devices : getMicrophone(deviceId)
  \/ \E deviceId \in Devices : changeActiveMicrophone(deviceId)
  \/ \E p \in pending : MicrophoneResolved(p)
  \/ \E p \in pending : MicrophoneRejected(p)
  \/ \E micId \in OptDevice, camId \in OptDevice :
       requestPermissionAndStartDevices(micId, camId)
  \/ \E p \in pending : StartResolved(p)
  \/ \E p \in pending : StartRejected(p)
  \/ \E dataArray \in FrequencyData : getActiveMicrophoneLevel(dataArray)

SpecLevel == Init /\ [][NextLevel]_vars

\* ---------------------------------------------------------- GalleryLayout

\* The fixed aspect ratio GalleryLayout asks for, 16 / 9.
AspectW == 16

AspectH == 9

\* The default of the gap prop.
DefaultGap == 10

\* A prop that is not set on an element.
Unset == -1

\* The children GalleryLayout can be given: valid elements (media tiles, with
\* no width or height of their own), strings, and empty nodes (null,
\* undefined, true, false).
ElementChild == [kind |-> "element", width |-> Unset, height |-> Unset]

TextChild == [kind |-> "text", width |-> Unset, height |-> Unset]

EmptyChild == [kind |-> "empty", width |-> Unset, height |-> Unset]

ChildKinds == {ElementChild, TextChild, EmptyChild}

ChildLists == UNION { [1..n -> ChildKinds] : n \in 0..MaxChildren }

Widths == {0, 100, 320, 1280}

Heights == {0, 90, 240, 720}

Gaps == {0, DefaultGap, 200}

\* Children.count: every node counts, empty ones included.
ChildrenCount(children) == Len(children)

isValidElement(child) == child.kind = "element"

\* cloneElement(child, {width, height}): the child with those two props set.
cloneElement(child, w, h) == [child EXCEPT !.width = w, !.height = h]

Ceil(a, b) == (a + b - 1) \div b

\* The best boxes of ratio aw:ah for a grid of the given number of columns.
BoxesFor(width, height, boxCount, aw, ah, gap, cols) ==
  LET rows == Ceil(boxCount, cols)
      availW == width - gap * (cols - 1)
      availH == height - gap * (rows - 1)
      w0 == availW \div cols
      h0 == availH \div rows
  IN  IF availW <= 0 \/ availH <= 0
        THEN [width |-> 0, height |-> 0, cols |-> cols, rows |-> rows]
      ELSE IF w0 * ah <= h0 * aw
        THEN [width |-> w0, height |-> (w0 * ah) \div aw, cols |-> cols, rows |-> rows]
      ELSE [width |-> (h0 * aw) \div ah, height |-> h0, cols |-> cols, rows |-> rows]

\* lib/gallery's calcOptimalBoxes: the grid whose equally sized boxes of the
\* given ratio cover the most area; zero width and height when nothing fits.
calcOptimalBoxes(width, height, boxCount, aw, ah, gap) ==
  LET fits == { BoxesFor(width, height, boxCount, aw, ah, gap, cols) : cols \in 1..boxCount }
      good == { f \in fits : f.width > 0 /\ f.height > 0 }
  IN  IF good = {}
        THEN [defined |-> TRUE, width |-> 0, height |-> 0, cols |-> 0, rows |-> 0]
      ELSE LET best == CHOOSE f \in good :
                         \A g \in good :
                            \/ g.width * g.height < f.width * f.height
                            \/ /\ g.width * g.height = f.width * f.height
                               /\ f.cols <= g.cols
           IN  [defined |-> TRUE, width |-> best.width, height |-> best.height,
                cols |-> best.cols, rows |-> best.rows]

\* A useMemo that hands the viewport's height over as its width.
bestFitSwapped(given, children, width, height, gap) ==
  IF given
    THEN calcOptimalBoxes(height, width, ChildrenCount(children), AspectW, AspectH, gap)
  ELSE [defined |-> FALSE, width |-> 0, height |-> 0, cols |-> 0, rows |-> 0]

\* The useMemo: no children, no computation.
bestFit(given, children, width, height, gap) ==
  IF given
    THEN calcOptimalBoxes(width, height, ChildrenCount(children), AspectW, AspectH, gap)
  ELSE [defined |-> FALSE, width |-> 0, height |-> 0, cols |-> 0, rows |-> 0]

\* A callback that injects the two dimensions the wrong way round.
MapChildSwapped(child, fit) ==
  IF isValidElement(child) /\ fit.defined /\ fit.width # 0 /\ fit.height # 0
    THEN cloneElement(child, fit.height, fit.width)
  ELSE child

\* The callback GalleryLayout hands to Children.map.
MapChild(child, fit) ==
  IF isValidElement(child) /\ fit.defined /\ fit.width # 0 /\ fit.height # 0
    THEN cloneElement(child, fit.width, fit.height)
  ELSE child

\* Children.map: the callback's results in order; an empty node reaches the
\* callback as null, and a null result is left out of the array.
RECURSIVE ChildrenMap(_, _)
ChildrenMap(children, fit) ==
  IF children = << >> THEN << >>
  ELSE LET child == Head(children)
           mapped == MapChild(child, fit)
       IN  (IF mapped.kind = "empty" THEN << >> ELSE << mapped >>)
           \o ChildrenMap(Tail(children), fit)

\* The props of a GalleryLayout that has not rendered yet.
GalleryProps ==
  { [rendered |-> FALSE, given |-> given, children |-> children,
     width |-> width, height |-> height, gap |-> gap, output |-> << >>] :
      given \in BOOLEAN, children \in ChildLists, width \in Widths,
      height \in Heights, gap \in Gaps }

\* Children that are null or undefined are no list at all.
InitGallery ==
  /\ MediaInit
  /\ gallery \in { g \in GalleryProps : ~g.given => g.children = << >> }

\* One render of GalleryLayout with its props.
GalleryLayout ==
  /\ ~gallery.rendered
  /\ gallery' = [gallery EXCEPT
       !.rendered = TRUE,
       !.output = ChildrenMap(gallery.children,
                              bestFit(gallery.given, gallery.children,
                                      gallery.width, gallery.height, gallery.gap))]
  /\ UNCHANGED mediaVars

GalleryNext == GalleryLayout

SpecGallery == InitGallery /\ [][GalleryNext]_vars

\* ==================================================================== claims

\* C1: in every reachable state at most one camera track acquired by the
\* provider is live, and at most one microphone track.
C1_AtMostOneLiveTrackPerKind ==
  /\ Cardinality(LiveTracks("video")) <= 1
  /\ Cardinality(LiveTracks("audio")) <= 1

\* C2: whenever a track becomes activeCamera through changeActiveCamera, the
\* camera that was active just before that step has already been stopped.
C2_NewCameraStopsPrevious ==
  [][ (last'.op = ChangeCameraName /\ last'.ev = "resolved" /\ activeCamera # None)
        => tracks[activeCamera].readyState = "ended" ]_vars

\* C3: when the acquisition an operation awaited has failed, the operation has
\* not passed the failure on to its caller and userMediaError holds the
\* generic message.
C3_FailuresCaught ==
  last.acq = "failed" =>
    /\ last.ev \notin {"rejected", "threw"}
    /\ userMediaError = GenericError

\* C4: muteActiveMicrophone leaves the active microphone's track disabled and
\* unMuteActiveMicrophone leaves it enabled; a second call in a row changes
\* nothing the first one left, applying either to its own result gives that
\* result again, and without an active microphone both change no track.
\* Neither changes anything but the track's enabled flag.
C4_MuteUnmuteIdempotent ==
  [][ /\ last'.op = "muteActiveMicrophone" =>
           /\ activeMicrophone # None => tracks'[activeMicrophone].enabled = FALSE
           /\ activeMicrophone = None => tracks' = tracks
           /\ MuteTrack(tracks', activeMicrophone') = tracks'
           /\ last.op = "muteActiveMicrophone" => tracks' = tracks
           /\ \A i \in DOMAIN tracks :
                i # activeMicrophone => tracks'[i] = tracks[i]
           /\ UNCHANGED << activeCamera, activeMicrophone, localAudioAnalyser,
                           userMediaError, pending >>
      /\ last'.op = "unMuteActiveMicrophone" =>
           /\ activeMicrophone # None => tracks'[activeMicrophone].enabled = TRUE
           /\ activeMicrophone = None => tracks' = tracks
           /\ UnMuteTrack(tracks', activeMicrophone') = tracks'
           /\ last.op = "unMuteActiveMicrophone" => tracks' = tracks
           /\ \A i \in DOMAIN tracks :
                i # activeMicrophone => tracks'[i] = tracks[i]
           /\ UNCHANGED << activeCamera, activeMicrophone, localAudioAnalyser,
                           userMediaError, pending >> ]_vars

\* C4's case: the active microphone has been muted twice in a row.
C4_Witness ==
  /\ last.op = "muteActiveMicrophone"
  /\ last.again
  /\ activeMicrophone # None
  /\ tracks[activeMicrophone].enabled = FALSE
  /\ tracks[activeMicrophone].readyState = "live"

\* C5: requestPermissionAndPopulateDevices starts enumerating only once the
\* dummy acquisition has succeeded and every track of its stream is stopped;
\* when the dummy acquisition or the enumeration fails the device lists are
\* unchanged and userMediaError is set; no step of it changes activeCamera or
\* activeMicrophone.
C5_PopulateDevices ==
  [][ last'.op = PopulateName =>
        /\ (\E p \in pending' : p.op = PopulateName
                                 /\ p.pc = "enumerateDevices" /\ p \notin pending)
             => /\ last'.acq = "ok"
                /\ Len(tracks') > Len(tracks)
                /\ \A i \in (Len(tracks) + 1)..Len(tracks') :
                     tracks'[i].readyState = "ended"
        /\ last'.acq \in {"failed", "unsupported"}
             => /\ UNCHANGED << microphoneDevices, cameraDevices >>
                /\ userMediaError' = GenericError
        /\ UNCHANGED << activeCamera, activeMicrophone >> ]_vars

\* What the spec expects of one child: the computed dimensions on a valid
\* element when there is a non-zero result, the child itself otherwise.
ExpectedChild(child, fit) ==
  IF child.kind = "element" /\ fit.defined /\ fit.width # 0 /\ fit.height # 0
    THEN [kind |-> "element", width |-> fit.width, height |-> fit.height]
  ELSE child

GalleryFit ==
  bestFit(gallery.given, gallery.children, gallery.width, gallery.height, gallery.gap)

\* C6 as stated: every child is output, in order, resized when it is a valid
\* element and there is a non-zero result and unmodified otherwise; the number
\* of children is preserved.
C6_EveryChildOutput ==
  gallery.rendered =>
    /\ Len(gallery.output) = Len(gallery.children)
    /\ \A i \in DOMAIN gallery.children :
         gallery.output[i] = ExpectedChild(gallery.children[i], GalleryFit)

\* The children that are not empty nodes, in order.
NonEmpty(children) == SelectSeq(children, LAMBDA c : c.kind # "empty")

\* C6 as amended: the output is the non-empty children in order, each resized
\* when it is a valid element and there is a non-zero result (computed for the
\* count of all children, empty ones included) and unmodified otherwise;
\* empty children (null, undefined, booleans) are left out.
C6_NonEmptyChildrenOutput ==
  gallery.rendered =>
    LET kept == NonEmpty(gallery.children)
    IN  /\ Len(gallery.output) = Len(kept)
        /\ \A i \in DOMAIN kept :
             gallery.output[i] = ExpectedChild(kept[i], GalleryFit)
        /\ (~gallery.given \/ GalleryFit.width = 0 \/ GalleryFit.height = 0)
             => gallery.output = kept

\* C6's case: a render that resized an element, kept a string as it was and
\* left an empty child out.
C6_Witness ==
  /\ gallery.rendered
  /\ Len(gallery.output) < Len(gallery.children)
  /\ \E i \in DOMAIN gallery.output :
       gallery.output[i].kind = "element" /\ gallery.output[i].width > 0
  /\ \E i \in DOMAIN gallery.output : gallery.output[i] = TextChild

\* C7: the width and height injected into the children are at most the
\* viewport's, and a grid of as many such boxes as there are children, with
\* the gaps between them, fits in the viewport.
C7_BoxesFitViewport ==
  gallery.rendered =>
    \A i \in DOMAIN gallery.output :
      gallery.output[i].width # Unset =>
        LET w == gallery.output[i].width
            h == gallery.output[i].height
            n == ChildrenCount(gallery.children)
        IN  /\ w > 0 /\ h > 0
            /\ w <= gallery.width
            /\ h <= gallery.height
            /\ \E cols \in 1..n :
                 LET rows == Ceil(n, cols)
                 IN  /\ cols * w + (cols - 1) * gallery.gap <= gallery.width
                     /\ rows * h + (rows - 1) * gallery.gap <= gallery.height

\* C7's case: three children were given dimensions in a viewport that is
\* taller than wide, with a gap.
C7_Witness ==
  /\ gallery.rendered
  /\ Len(gallery.children) = 3
  /\ gallery.gap > 0
  /\ gallery.width < gallery.height
  /\ \A i \in DOMAIN gallery.output : gallery.output[i].width > 0
  /\ Len(gallery.output) = 3

\* C8: a requestPermissionAndStartDevices whose acquisition fails (no
\* getUserMedia, or a rejection) resolves, sets userMediaError to the generic
\* message and leaves the active tracks, the analyser, the device lists and
\* the tracks as they were; one that succeeds makes the stream's audio track
\* the activeMicrophone, builds the analyser from it and makes the video
\* track the activeCamera.
C8_StartDevicesOutcome ==
  [][ (last'.op = StartName /\ last'.ev # "pending") =>
        /\ last'.ev = "resolved"
        /\ last'.acq \in {"failed", "unsupported"} =>
             /\ userMediaError' = GenericError
             /\ UNCHANGED << activeCamera, activeMicrophone, localAudioAnalyser,
                             microphoneDevices, cameraDevices, tracks >>
        /\ last'.acq = "ok" =>
             \E a, v \in (Len(tracks) + 1)..Len(tracks') :
               /\ tracks'[a].kind = "audio" /\ tracks'[a].readyState = "live"
               /\ tracks'[v].kind = "video" /\ tracks'[v].readyState = "live"
               /\ activeMicrophone' = a
               /\ localAudioAnalyser' = a
               /\ activeCamera' = v
               /\ Len(tracks') = Len(tracks) + 2 ]_vars

\* C8's case: with a camera and a microphone active, a later
\* requestPermissionAndStartDevices failed and left them in place.
C8_Witness ==
  /\ last.op = StartName
  /\ last.acq = "failed"
  /\ last.ev = "resolved"
  /\ userMediaError = GenericError
  /\ activeCamera # None
  /\ activeMicrophone # None
  /\ localAudioAnalyser = activeMicrophone

\* The options object as the module defines it.
InitialOptions == [video |-> defaultCameraOption.video, audio |-> defaultMicrophoneOption.audio]

\* C9: the constraints a requestPermissionAndStartDevices call hands to
\* getUserMedia depend only on its own arguments (the defaults where an
\* argument is missing), and the call leaves defaultMicrophoneCameraOptions
\* as it was.
C9_ConstraintsFromOwnArguments ==
  [][ \A micId \in OptDevice, camId \in OptDevice :
        (supported /\ requestPermissionAndStartDevices(micId, camId)) =>
          /\ UNCHANGED defaultMicrophoneCameraOptions
          /\ \A p \in pending' \ pending :
               /\ p.audio = StartConstraints(InitialOptions, micId, camId).audio
               /\ p.video = StartConstraints(InitialOptions, micId, camId).video ]_vars

\* What C10 says of every step of changeActiveMicrophone but a failure's,
\* and of the call of changeActiveCamera.
C10_CallAndSuccess ==
  /\ (last'.op = ChangeMicrophoneName /\ last'.ev = "pending") =>
       /\ activeMicrophone' = activeMicrophone
       /\ activeMicrophone # None =>
            tracks'[activeMicrophone].readyState = "ended"
       /\ \E p \in pending' \ pending :
            /\ p.op = ChangeMicrophoneName
            /\ p.prev = activeMicrophone
            /\ p.prevState # "live"
  /\ (last'.op = ChangeMicrophoneName /\ last'.ev = "resolved") =>
       /\ activeMicrophone' = Len(tracks')
       /\ Len(tracks') = Len(tracks) + 1
       /\ tracks'[activeMicrophone'].kind = "audio"
       /\ tracks'[activeMicrophone'].readyState = "live"
  /\ (last'.op = ChangeCameraName /\ last'.ev = "pending") =>
       activeCamera' = None

\* C10 as stated: changeActiveMicrophone has stopped the microphone that was
\* active at the call when it requests the new one; when the acquisition
\* resolves the new track becomes activeMicrophone; when it fails
\* activeMicrophone is not cleared and refers to the stopped microphone of
\* the time of the call.  changeActiveCamera clears activeCamera at the call.
C10_FailureKeepsPrevious ==
  [][ /\ C10_CallAndSuccess
      /\ (last'.op = ChangeMicrophoneName /\ last'.acq = "failed") =>
           \A p \in pending \ pending' :
             p.prev # None =>
               /\ activeMicrophone' = p.prev
               /\ tracks'[activeMicrophone'].readyState = "ended" ]_vars

\* C10 as amended: as above, but when the acquisition fails the step leaves
\* activeMicrophone as it finds it: that is the stopped microphone of the
\* time of the call unless another acquisition has replaced it meanwhile.
C10_ChangeMicrophone ==
  [][ /\ C10_CallAndSuccess
      /\ (last'.op = ChangeMicrophoneName /\ last'.acq = "failed") =>
           /\ activeMicrophone' = activeMicrophone
           /\ \A p \in pending \ pending' :
                /\ p.prev # None => tracks'[p.prev].readyState = "ended"
                /\ (p.prev # None /\ activeMicrophone' # p.prev) =>
                     /\ activeMicrophone' > p.prev
                     /\ tracks'[activeMicrophone'].kind = "audio" ]_vars

\* C10's case: a changeActiveMicrophone made with an active microphone has
\* failed, and activeMicrophone still refers to that, stopped, track.
C10_Witness ==
  /\ last.op = ChangeMicrophoneName
  /\ last.acq = "failed"
  /\ activeMicrophone # None
  /\ tracks[activeMicrophone].readyState = "ended"
  /\ localAudioAnalyser = activeMicrophone

\* C12: muteActiveMicrophone disables the track that is active at the call
\* and no other, and a track that getMicrophone, changeActiveMicrophone or
\* requestPermissionAndStartDevices makes the active microphone comes up
\* enabled whatever the mute state of the microphone before it; making it
\* active changes the enabled flag of no track there was.
C12_MuteBelongsToTrack ==
  [][ /\ last'.op = "muteActiveMicrophone" =>
           /\ activeMicrophone # None => tracks'[activeMicrophone].enabled = FALSE
           /\ \A i \in DOMAIN tracks :
                i # activeMicrophone => tracks'[i].enabled = tracks[i].enabled
      /\ (/\ last'.op \in {GetMicrophoneName, ChangeMicrophoneName, StartName}
          /\ last'.ev = "resolved" /\ last'.acq = "ok") =>
           /\ activeMicrophone' \notin DOMAIN tracks
           /\ activeMicrophone' \in DOMAIN tracks'
           /\ tracks'[activeMicrophone'].enabled = TRUE
           /\ \A i \in DOMAIN tracks : tracks'[i].enabled = tracks[i].enabled ]_vars

\* C12's case: the microphone was muted and never unmuted, and the microphone
\* that has just replaced it is enabled.
C12_Witness ==
  /\ last.op \in {GetMicrophoneName, ChangeMicrophoneName, StartName}
  /\ last.ev = "resolved" /\ last.acq = "ok"
  /\ activeMicrophone # None
  /\ tracks[activeMicrophone].enabled = TRUE
  /\ \E i \in DOMAIN tracks :
       /\ i < activeMicrophone
       /\ tracks[i].kind = "audio"
       /\ tracks[i].enabled = FALSE

\* C13: once userMediaError is set no step clears it or changes it.
C13_ErrorSticky ==
  [][ userMediaError # Undefined => userMediaError' = userMediaError ]_vars

\* C13's case: the error was set, and an acquisition has succeeded since.
C13_Witness ==
  /\ userMediaError = GenericError
  /\ last.ev = "resolved" /\ last.acq = "ok"
  /\ activeCamera # None

\* C14: stopActiveCamera stops the active camera's track and leaves
\* activeCamera, and so activeCameraId, undefined; without an active camera
\* it changes nothing, so a second call in a row changes nothing.  It never
\* changes another track, activeMicrophone, the analyser, the device lists,
\* userMediaError or the cameraDeviceId preference.
C14_StopActiveCamera ==
  [][ last'.op = "stopActiveCamera" =>
        /\ activeCamera # None => tracks'[activeCamera].readyState = "ended"
        /\ activeCamera' = None
        /\ activeCameraId' = Undefined
        /\ activeCamera = None => tracks' = tracks
        /\ last.op = "stopActiveCamera" =>
             /\ tracks' = tracks
             /\ activeCamera' = activeCamera
        /\ \A i \in DOMAIN tracks : i # activeCamera => tracks'[i] = tracks[i]
        /\ DOMAIN tracks' = DOMAIN tracks
        /\ UNCHANGED << activeMicrophone, localAudioAnalyser, microphoneDevices,
                        cameraDevices, userMediaError, cameraDeviceId,
                        microphoneDeviceId, pending,
                        defaultMicrophoneCameraOptions >> ]_vars

\* C14's case: the camera acquired by getCamera was stopped, stopActiveCamera
\* was called again, and the preference still names its device.
C14_Witness ==
  /\ last.op = "stopActiveCamera"
  /\ last.again
  /\ activeCamera = None
  /\ cameraDeviceId # Undefined
  /\ \E i \in DOMAIN tracks :
       tracks[i].kind = "video" /\ tracks[i].readyState = "ended"
  /\ activeMicrophone # None

\* C11: whenever there is an active microphone the analyser is set and is
\* fed by that microphone's track; getActiveMicrophoneLevel returns null
\* exactly when there is no active microphone or no analyser, and otherwise
\* a level whose average is at most its peak.
C11_AnalyserFollowsMicrophone ==
  /\ activeMicrophone # None =>
       /\ localAudioAnalyser # None
       /\ localAudioAnalyser = activeMicrophone
  /\ last.op = "getActiveMicrophoneLevel" =>
       /\ level.kind \in {"null", "level"}
       /\ level.kind = "null" <=>
            (activeMicrophone = None \/ localAudioAnalyser = None)
       /\ level.kind = "level" =>
            /\ level.avgDb.den > 0
            /\ level.avgDb.num <= level.peakDb * level.avgDb.den

\* C11's case: two microphone acquisitions have resolved, the later one is
\* the active microphone, and a level was read whose average is below its
\* peak.
C11_Witness ==
  /\ last.op = "getActiveMicrophoneLevel"
  /\ level.kind = "level"
  /\ level.avgDb.num < level.peakDb * level.avgDb.den
  /\ Cardinality({ i \in DOMAIN tracks : tracks[i].kind = "audio" }) >= 2
  /\ localAudioAnalyser = activeMicrophone
  /\ \A i \in DOMAIN tracks : tracks[i].kind = "audio" => i <= activeMicrophone

====
